---------------------------- MODULE Spec2Model ----------------------------
(***************************************************************************)
(* Fractional indexing: Indexer.insert and friends over three accessors    *)
(* (ManagedListAccessor, SqliteAccessor, FileAccessor), together with the  *)
(* key generator generate_key_between that Indexer.insert delegates to.    *)
(*                                                                         *)
(* A string is a sequence of character codes.  The 62 symbols of the key   *)
(* alphabet "0-9A-Za-z" are coded by their index in that alphabet          *)
(* (0..9 = '0'..'9', 10..35 = 'A'..'Z', 36..61 = 'a'..'z'), an order that  *)
(* agrees with codepoint order, so digits.index(c) is c itself and         *)
(* Python's  <  on str is lexicographic order on the codes.  The one other *)
(* character that occurs, '-', sorts below '0' and is coded Dash.          *)
(* Python's None is the value None, distinct from every string.            *)
(***************************************************************************)
EXTENDS Integers, Sequences, FiniteSets, TLC

None == <<-1>>
Dash == -2

(* The outcome of a call that raised instead of returning. *)
FIError   == <<-3>>
TypeError == <<-4>>
AttributeError == <<-5>>
IndexError == <<-6>>
KeyError == <<-7>>
IsError(r) == r \in {FIError, TypeError, AttributeError, IndexError, KeyError}

---------------------------------------------------------------------------
(* The key alphabet. *)
NumDigits  == 10
NumLetters == 26
Base  == NumDigits + 2 * NumLetters
Zero  == 0
UpperA == NumDigits
UpperZ == NumDigits + NumLetters - 1
LowerA == NumDigits + NumLetters
LowerZ == Base - 1

IsUpper(c) == UpperA <= c /\ c <= UpperZ
IsLower(c) == LowerA <= c /\ c <= LowerZ

(* Python's  a < b  and  a >= b  on two strings. *)
StrLt(a, b) ==
  \E i \in 1..Len(b) :
     /\ i <= Len(a) + 1
     /\ \A j \in 1..(i - 1) : a[j] = b[j]
     /\ (i = Len(a) + 1 \/ a[i] < b[i])
StrLe(a, b) == a = b \/ StrLt(a, b)

Drop(s, n) == SubSeq(s, n + 1, Len(s))
Take(s, n) == SubSeq(s, 1, n)
Repeat(c, n) == [i \in 1..n |-> c]

(* p + r, where r is the result of a call that may have raised. *)
Cat(p, r) == IF IsError(r) THEN r ELSE p \o r

---------------------------------------------------------------------------
(* Key Codec: the integer part of a key. *)

(* 0 stands for the raise on a head that is no letter. *)
get_integer_length(head) ==
  IF IsLower(head) THEN head - LowerA + 2
  ELSE IF IsUpper(head) THEN UpperZ - head + 2
  ELSE 0

SmallestInteger == <<UpperA>> \o Repeat(Zero, NumLetters)

validate_order_key(key) ==
  /\ key # SmallestInteger
  /\ Len(key) >= 1
  /\ get_integer_length(key[1]) # 0
  /\ get_integer_length(key[1]) <= Len(key)
  /\ \A i \in 1..Len(key) : key[i] \in 0..(Base - 1)
  /\ (Len(key) > get_integer_length(key[1]) => key[Len(key)] # Zero)

get_integer_part(key) == Take(key, get_integer_length(key[1]))

(* The digits after the head, incremented with carry: the position of the   *)
(* last digit below Base-1, 0 when all carry.                               *)
LastBelowMax(digs) ==
  LET S == {i \in 1..Len(digs) : digs[i] # Base - 1}
  IN IF S = {} THEN 0 ELSE CHOOSE i \in S : \A j \in S : j <= i
LastAboveZero(digs) ==
  LET S == {i \in 1..Len(digs) : digs[i] # Zero}
  IN IF S = {} THEN 0 ELSE CHOOSE i \in S : \A j \in S : j <= i

(* None when x is the largest integer part. *)
increment_integer(x) ==
  LET head == x[1]
      digs == Tail(x)
      p    == LastBelowMax(digs)
  IN IF p # 0
       THEN <<head>> \o [i \in 1..Len(digs) |->
                           IF i < p THEN digs[i]
                           ELSE IF i = p THEN digs[i] + 1 ELSE Zero]
     ELSE IF head = UpperZ THEN <<LowerA, Zero>>
     ELSE IF head = LowerZ THEN None
     ELSE IF head + 1 > LowerA
       THEN <<head + 1>> \o Repeat(Zero, Len(digs) + 1)
     ELSE <<head + 1>> \o Repeat(Zero, Len(digs) - 1)

(* None when x is the smallest integer part. *)
decrement_integer(x) ==
  LET head == x[1]
      digs == Tail(x)
      p    == LastAboveZero(digs)
  IN IF p # 0
       THEN <<head>> \o [i \in 1..Len(digs) |->
                           IF i < p THEN digs[i]
                           ELSE IF i = p THEN digs[i] - 1 ELSE Base - 1]
     ELSE IF head = LowerA THEN <<UpperZ, Base - 1>>
     ELSE IF head = UpperA THEN None
     ELSE IF head - 1 < UpperZ
       THEN <<head - 1>> \o Repeat(Base - 1, Len(digs) + 1)
     ELSE <<head - 1>> \o Repeat(Base - 1, Len(digs) - 1)

---------------------------------------------------------------------------
(* Key Codec: the fractional part. *)

(* Length of the common prefix of a, padded with zeros to Len(b), and b. *)
CommonPrefix(a, b) ==
  LET pad(i) == IF i <= Len(a) THEN a[i] ELSE Zero
      S == {n \in 0..Len(b) : \A i \in 1..n : pad(i) = b[i]}
  IN CHOOSE n \in S : \A m \in S : m <= n

RECURSIVE midpoint(_, _)
midpoint(a, b) ==
  IF b # None /\ ~StrLt(a, b) THEN FIError
  ELSE IF (Len(a) > 0 /\ a[Len(a)] = Zero)
          \/ (b # None /\ Len(b) > 0 /\ b[Len(b)] = Zero) THEN FIError
  ELSE LET n == IF b # None /\ Len(b) > 0 THEN CommonPrefix(a, b) ELSE 0
       IN IF n > 0 THEN Cat(Take(b, n), midpoint(Drop(a, n), Drop(b, n)))
          ELSE LET digit_a == IF Len(a) > 0 THEN a[1] ELSE 0
                   digit_b == IF b # None THEN b[1] ELSE Base
               IN IF digit_b - digit_a > 1
                    THEN <<(digit_a + digit_b + 1) \div 2>>
                  ELSE IF b # None /\ Len(b) > 1 THEN Take(b, 1)
                  ELSE Cat(<<digit_a>>, midpoint(Drop(a, 1), None))

---------------------------------------------------------------------------
(* Key Generator. *)
generate_key_between(a, b) ==
  IF a # None /\ ~validate_order_key(a) THEN FIError
  ELSE IF b # None /\ ~validate_order_key(b) THEN FIError
  ELSE IF a # None /\ b # None /\ ~StrLt(a, b) THEN FIError
  ELSE IF a = None THEN
    IF b = None THEN <<LowerA, Zero>>
    ELSE LET int_b == get_integer_part(b)
             float_part_b == Drop(b, Len(int_b))
         IN IF int_b = SmallestInteger
              THEN Cat(int_b, midpoint(<<>>, float_part_b))
            ELSE IF StrLt(int_b, b) THEN int_b
            ELSE LET res == decrement_integer(int_b)
                 IN IF res = None THEN FIError ELSE res
  ELSE IF b = None THEN
    LET int_a == get_integer_part(a)
        float_part_a == Drop(a, Len(int_a))
        i == increment_integer(int_a)
    IN IF i = None THEN Cat(int_a, midpoint(float_part_a, None)) ELSE i
  ELSE
    LET int_a == get_integer_part(a)
        float_part_a == Drop(a, Len(int_a))
        int_b == get_integer_part(b)
        float_part_b == Drop(b, Len(int_b))
    IN IF int_a = int_b
         THEN Cat(int_a, midpoint(float_part_a, float_part_b))
       ELSE LET i == increment_integer(int_a)
            IN IF i = None THEN FIError
               ELSE IF StrLt(i, b) THEN i
               ELSE Cat(int_a, midpoint(float_part_a, None))

---------------------------------------------------------------------------
(* ManagedListAccessor: a SortedList of keys (a sorted sequence that may     *)
(* hold a key more than once) with the four read operations.                 *)

bisect_right(l, item) == Cardinality({i \in 1..Len(l) : StrLe(l[i], item)})
bisect_left(l, item)  == Cardinality({i \in 1..Len(l) : StrLt(l[i], item)})

(* Mutant: the key is written over the element at its position. *)
SortedAdd_overwrite(l, key) ==
  LET i == bisect_right(l, key)
  IN IF i = 0 THEN <<key>> \o l ELSE Take(l, i - 1) \o <<key>> \o Drop(l, i)

(* SortedList.add: the key goes in at its sorted position. *)
(* Mutant: the key is appended, as list.append does. *)
SortedAdd_append(l, key) == l \o <<key>>

SortedAdd(l, key) ==
  LET i == bisect_right(l, key)
  IN Take(l, i) \o <<key>> \o Drop(l, i)

(* SortedList(keys): the keys given, in any order, added one by one. *)
RECURSIVE SortedList_new(_)
SortedList_new(keys) ==
  IF keys = <<>> THEN <<>>
  ELSE SortedAdd(SortedList_new(Take(keys, Len(keys) - 1)), keys[Len(keys)])

(* Comparing None with a str raises TypeError; an empty SortedList answers   *)
(* a bisect without comparing anything.                                      *)
(* Mutant: after bisects to the left of the item and answers the item. *)
ML_after_bisect_left(l, item) ==
  IF item = None /\ Len(l) > 0 THEN TypeError
  ELSE LET i == IF item = None THEN 0 ELSE bisect_left(l, item)
       IN IF i < Len(l) THEN l[i + 1] ELSE None

ML_after(l, item) ==
  IF item = None /\ Len(l) > 0 THEN TypeError
  ELSE LET i == IF item = None THEN 0 ELSE bisect_right(l, item)
       IN IF i < Len(l) THEN l[i + 1] ELSE None

(* Mutant: before answers one position too far to the left. *)
ML_before_off_by_one(l, item) ==
  IF item = None /\ Len(l) > 0 THEN TypeError
  ELSE LET i == (IF item = None THEN 0 ELSE bisect_left(l, item)) - 2
       IN IF i >= 0 THEN l[i + 1] ELSE None

ML_before(l, item) ==
  IF item = None /\ Len(l) > 0 THEN TypeError
  ELSE LET i == (IF item = None THEN 0 ELSE bisect_left(l, item)) - 1
       IN IF i >= 0 THEN l[i + 1] ELSE None

ML_first(l) == IF Len(l) > 0 THEN l[1] ELSE None
ML_last(l)  == IF Len(l) > 0 THEN l[Len(l)] ELSE None

---------------------------------------------------------------------------
(* SqliteAccessor: MIN / MAX of the column over the rows a WHERE keeps.  The *)
(* table is the set of its column values.  An aggregate over no rows is     *)
(* NULL, and a comparison with NULL keeps no row.                            *)
StrMin(S) == IF S = {} THEN None ELSE CHOOSE m \in S : \A o \in S : StrLe(m, o)
StrMax(S) == IF S = {} THEN None ELSE CHOOSE m \in S : \A o \in S : StrLe(o, m)

Sql_first(t) == StrMin(t)
Sql_last(t)  == StrMax(t)
Sql_before(t, item) == StrMax({r \in t : item # None /\ StrLt(r, item)})
(* Mutant: after asks for the MAX above the item. *)
Sql_after_max(t, item) == StrMax({r \in t : item # None /\ StrLt(item, r)})
Sql_after(t, item)  == StrMin({r \in t : item # None /\ StrLt(item, r)})

---------------------------------------------------------------------------
(* FileAccessor over a directory, the set of its entries' names, with the   *)
(* name_to_key of the file test: the text before the first "--", None for a *)
(* name without one.                                                         *)
FileSuffix == <<Dash, Dash, LowerA>>
add_file(key) == key \o FileSuffix

get_key_from_name(name) ==
  LET S == {i \in 1..(Len(name) - 1) : name[i] = Dash /\ name[i + 1] = Dash}
  IN IF name = None \/ S = {} THEN None
     ELSE Take(name, (CHOOSE i \in S : \A j \in S : i <= j) - 1)

(* The keys of the eligible names, and the name a key belongs to. *)
key_names_keys(d) == {get_key_from_name(nm) : nm \in d} \ {None}
key_names_get(d, k) == CHOOSE nm \in d : get_key_from_name(nm) = k

(* self._key_names()[k], on the names a scan of its own finds. *)
key_names_getitem(d, k) ==
  IF k \in key_names_keys(d) THEN key_names_get(d, k) ELSE KeyError

RECURSIVE SortedListOf(_)
SortedListOf(S) ==
  IF S = {} THEN <<>>
  ELSE LET m == StrMin(S) IN <<m>> \o SortedListOf(S \ {m})

File_keys(d) == SortedListOf(key_names_keys(d))
File_name(d, out_k) ==
  IF IsError(out_k) \/ out_k = None THEN out_k ELSE key_names_get(d, out_k)

File_after(d, name)  == File_name(d, ML_after(File_keys(d), get_key_from_name(name)))
File_before(d, name) == File_name(d, ML_before(File_keys(d), get_key_from_name(name)))
File_first(d) == File_name(d, ML_first(File_keys(d)))
File_last(d)  == File_name(d, ML_last(File_keys(d)))

---------------------------------------------------------------------------
(* Indexer over the accessor of its kind. *)
Kinds == {"list", "sqlite", "file"}

(* A SqliteIndexer whose rows are named "msg-" key, with the name_to_key of *)
(* the test, which answers None for None, or with one that splits whatever  *)
(* it is given.                                                              *)
NamedKinds  == {"sqlite_names", "sqlite_split"}
SqliteKinds == {"sqlite"} \cup NamedKinds

MsgPrefix == <<48, 54, 42, Dash>>
add_record(key) == MsgPrefix \o key

(* name.split('-')[1] *)
split_name(name) ==
  LET D  == {i \in 1..Len(name) : name[i] = Dash}
      d1 == CHOOSE i \in D : \A j \in D : i <= j
      E  == {i \in D : i > d1} \cup {Len(name) + 1}
      d2 == CHOOSE i \in E : \A j \in E : i <= j
  IN IF name = None THEN AttributeError
     ELSE IF D = {} THEN IndexError
     ELSE SubSeq(name, d1 + 1, d2 - 1)

msg_name_to_key(name) ==
  IF name # None /\ \E i \in 1..Len(name) : name[i] = Dash
    THEN split_name(name) ELSE None

Acc_first(kind, c) ==
  CASE kind = "list" -> ML_first(c) [] kind \in SqliteKinds -> Sql_first(c)
    [] kind = "file" -> File_first(c)
Acc_last(kind, c) ==
  CASE kind = "list" -> ML_last(c) [] kind \in SqliteKinds -> Sql_last(c)
    [] kind = "file" -> File_last(c)
Acc_before(kind, c, name) ==
  CASE kind = "list" -> ML_before(c, name) [] kind \in SqliteKinds -> Sql_before(c, name)
    [] kind = "file" -> File_before(c, name)
Acc_after(kind, c, name) ==
  CASE kind = "list" -> ML_after(c, name) [] kind \in SqliteKinds -> Sql_after(c, name)
    [] kind = "file" -> File_after(c, name)

name_to_key(kind, name) ==
  CASE kind = "file" -> get_key_from_name(name)
    [] kind = "sqlite_names" -> msg_name_to_key(name)
    [] kind = "sqlite_split" -> split_name(name)
    [] OTHER -> name

(* The bounds Indexer.insert passes on, after its match statement. *)
ResolveAfter(kind, c, after, before) ==
  IF after = None /\ before = None THEN Acc_last(kind, c)
  ELSE IF after = None THEN Acc_before(kind, c, before)
  ELSE after
ResolveBefore(kind, c, after, before) ==
  IF after # None /\ before = None THEN Acc_after(kind, c, after)
  ELSE before

(* Mutant: the upper bound is not passed on. *)
Indexer_insert_no_upper(kind, c, after, before) ==
  LET a == ResolveAfter(kind, c, after, before)
      b == ResolveBefore(kind, c, after, before)
  IN IF IsError(a) THEN a
     ELSE IF IsError(b) THEN b
     ELSE generate_key_between(name_to_key(kind, a), None)

(* Mutant: two absent bounds are refused. *)
Indexer_insert_refuses_empty(kind, c, after, before) ==
  LET a == ResolveAfter(kind, c, after, before)
      b == ResolveBefore(kind, c, after, before)
  IN IF IsError(a) THEN a
     ELSE IF IsError(b) THEN b
     ELSE IF a = None /\ b = None THEN FIError
     ELSE generate_key_between(name_to_key(kind, a), name_to_key(kind, b))

(* Mutant: bounds given in the wrong order are swapped. *)
Indexer_insert_swaps(kind, c, after, before) ==
  LET a  == ResolveAfter(kind, c, after, before)
      b  == ResolveBefore(kind, c, after, before)
      ka == name_to_key(kind, a)
      kb == name_to_key(kind, b)
  IN IF IsError(a) THEN a
     ELSE IF IsError(b) THEN b
     ELSE IF ka # None /\ kb # None /\ StrLt(kb, ka)
       THEN generate_key_between(kb, ka)
     ELSE generate_key_between(ka, kb)

(* A raise of an accessor or of name_to_key leaves the call. *)
Indexer_insert(kind, c, after, before) ==
  LET a  == ResolveAfter(kind, c, after, before)
      b  == ResolveBefore(kind, c, after, before)
      ka == name_to_key(kind, a)
      kb == name_to_key(kind, b)
  IN IF IsError(a) THEN a
     ELSE IF IsError(b) THEN b
     ELSE IF IsError(ka) THEN ka
     ELSE IF IsError(kb) THEN kb
     ELSE generate_key_between(ka, kb)

(* ManagedListIndexer.insert: the key Indexer.insert generates is added to *)
(* the list; a raise leaves before the add.                                 *)
ML_insert(l, after, before) ==
  LET new_idx == Indexer_insert("list", l, after, before)
  IN [ret |-> new_idx,
      coll |-> IF IsError(new_idx) THEN l ELSE SortedAdd(l, new_idx)]

(* self.insert: ManagedListIndexer overrides it, SqliteIndexer and          *)
(* FileIndexer inherit Indexer.insert, which only generates the key.        *)
Self_insert(kind, c, after, before) ==
  IF kind = "list" THEN ML_insert(c, after, before)
  ELSE [ret |-> Indexer_insert(kind, c, after, before), coll |-> c]

insert_at_start(kind, c) ==
  LET f == Acc_first(kind, c)
  IN IF IsError(f) THEN [ret |-> f, coll |-> c]
     ELSE Self_insert(kind, c, None, f)
insert_at_end(kind, c) ==
  LET l == Acc_last(kind, c)
  IN IF IsError(l) THEN [ret |-> l, coll |-> c]
     ELSE Self_insert(kind, c, l, None)

(* list(idx): first(), then after() until it answers None. *)
RECURSIVE IterFrom(_, _, _)
IterFrom(kind, c, current) ==
  IF IsError(current) THEN <<current>>
  ELSE IF current = None THEN <<>>
  ELSE <<current>> \o IterFrom(kind, c, Acc_after(kind, c, current))
Indexer_iter(kind, c) == IterFrom(kind, c, Acc_first(kind, c))

(* The callers' add_func of the tests: the row's id is the key, the file's  *)
(* name is the key followed by "--a".                                        *)
add_func(kind, key) ==
  CASE kind = "file" -> add_file(key)
    [] kind \in NamedKinds -> add_record(key)
    [] OTHER -> key

---------------------------------------------------------------------------
(* Bounds and the inputs drawn. *)
MaxOps   == 2
MaxChain == 5
MaxIterOps == 3
MaxYield   == 5
MaxDirOps  == 2

Key_a0  == <<LowerA, 0>>
Key_a1  == <<LowerA, 1>>
Key_a2  == <<LowerA, 2>>
Key_a1V == <<LowerA, 1, 31>>
Key_az  == <<LowerA, LowerZ>>
Key_Z0  == <<UpperZ, 0>>
Key_Zz  == <<UpperZ, LowerZ>>
KeyTop  == Repeat(LowerZ, NumLetters + 1)
KeyBot1 == SmallestInteger \o <<1>>
(* The smallest integer part that is a valid key: "A" 25 zeros "1". *)
Key_A1  == <<UpperA>> \o Repeat(Zero, NumLetters - 1) \o <<1>>

(* The collections an Indexer starts on, as sorted lists of keys. *)
InitKeys ==
  { <<>>, <<Key_a0, Key_a1, Key_a2>>, <<Key_Z0, Key_az>>, <<KeyBot1, Key_Zz>>,
    <<Key_A1>>, <<KeyTop>> }

(* A file name that is not part of the ordering. *)
JunkName == <<27, 14, 10, 13>>

Range(l) == {l[i] : i \in 1..Len(l)}
Names(kind, c) == IF kind = "list" THEN Range(c) ELSE c
KeysOf(kind, c) == {name_to_key(kind, nm) : nm \in Names(kind, c)} \ {None}
(* Names a caller may pass that need not be in the collection. *)
Foreign(kind) ==
  CASE kind = "file" -> {add_file(Key_a1V), add_file(Key_A1), JunkName}
    [] kind \in NamedKinds -> {add_record(Key_a1V)}
    [] OTHER -> {Key_a1V, Key_A1}

VARIABLES kind, coll, last, n, calls
vars == <<kind, coll, last, n, calls>>

InsertOps == {"insert", "insert_at_start", "insert_at_end"}
ReadOps   == {"first", "last", "before", "after"}

(* Two callers that share one Indexer, and the call each has in flight: its *)
(* position, its arguments, the key generated, the collection its first     *)
(* read saw, and the collection its key was added to (both empty before the *)
(* call).                                                                    *)
Callers == {1, 2}
Idle ==
  [pc |-> "idle", op |-> "none", after |-> None, before |-> None,
   key |-> None, pre |-> <<>>, at |-> <<>>]

(* The call just made: its arguments, what it returned or raised, the       *)
(* collection it ran on, and whether the key it returned is in the          *)
(* collection by now.                                                        *)
Call(op, after, before, ret, persisted) ==
  [op |-> op, after |-> after, before |-> before, ret |-> ret, pre |-> coll,
   persisted |-> persisted]

Init ==
  /\ kind \in Kinds
  /\ \E ks \in InitKeys :
       \/ kind = "list" /\ coll = ks
       \/ kind = "sqlite" /\ coll = Range(ks)
       \/ /\ kind = "file"
          /\ \E junk \in SUBSET {JunkName} :
               coll = {add_file(key) : key \in Range(ks)} \cup junk
  /\ last = [op |-> "new", after |-> None, before |-> None, ret |-> None,
             pre |-> coll, persisted |-> FALSE]
  /\ n = 0
  /\ calls = [i \in Callers |-> Idle]

Generated(max, op, after, before, r) ==
  /\ n < max
  /\ n' = n + 1
  /\ last' = Call(op, after, before, r.ret, kind = "list" /\ ~IsError(r.ret))
  /\ coll' = r.coll
  /\ UNCHANGED <<kind, calls>>

Insert ==
  \E after, before \in Names(kind, coll) \cup Foreign(kind) \cup {None} :
     Generated(MaxOps, "insert", after, before,
               Self_insert(kind, coll, after, before))

InsertAtStart ==
  Generated(MaxOps, "insert_at_start", None, None, insert_at_start(kind, coll))

InsertAtEnd ==
  Generated(MaxOps, "insert_at_end", None, None, insert_at_end(kind, coll))

(* The caller of a SqliteIndexer or FileIndexer adds the item itself. *)
Persist ==
  /\ kind # "list"
  /\ last.op \in InsertOps
  /\ ~IsError(last.ret)
  /\ ~last.persisted
  /\ coll' = coll \cup {add_func(kind, last.ret)}
  /\ last' = [last EXCEPT !.persisted = TRUE]
  /\ UNCHANGED <<kind, n, calls>>

Read ==
  /\ n < MaxOps
  /\ n' = n + 1
  /\ \/ last' = Call("first", None, None, Acc_first(kind, coll), FALSE)
     \/ last' = Call("last", None, None, Acc_last(kind, coll), FALSE)
     \/ \E name \in Names(kind, coll) \cup Foreign(kind) :
          \/ last' = Call("before", name, None, Acc_before(kind, coll, name), FALSE)
          \/ last' = Call("after", name, None, Acc_after(kind, coll, name), FALSE)
  /\ UNCHANGED <<kind, coll, calls>>

Iterate ==
  /\ n < MaxOps
  /\ n' = n + 1
  /\ last' = Call("iter", None, None, Indexer_iter(kind, coll), FALSE)
  /\ UNCHANGED <<kind, coll, calls>>

Next == Insert \/ InsertAtStart \/ InsertAtEnd \/ Persist \/ Read \/ Iterate

Spec == Init /\ [][Next]_vars

(* Runs of insert_at_start / insert_at_end calls alone, MaxChain long. *)
ChainInsertAtStart ==
  Generated(MaxChain, "insert_at_start", None, None, insert_at_start(kind, coll))
ChainInsertAtEnd ==
  Generated(MaxChain, "insert_at_end", None, None, insert_at_end(kind, coll))

ChainNext == ChainInsertAtStart \/ ChainInsertAtEnd \/ Persist

SpecChain == Init /\ [][ChainNext]_vars

(* FileAccessor reads while another process adds and removes directory     *)
(* entries.  A read scans the directory for the keys (self._keys()) and     *)
(* picks the key to answer with; when that is a key it scans the directory  *)
(* again (self._key_names()) and looks the key up.  The names asked for     *)
(* have a key.  One caller reads.                                            *)
Reader == CHOOSE i \in Callers : \A j \in Callers : i <= j

KeyedNames(d) ==
  {nm \in d \cup Foreign("file") : get_key_from_name(nm) # None}

Scanned(i, op, name, out_k) ==
  /\ calls[i].pc = "idle"
  /\ calls' = [calls EXCEPT ![i] =
                 [pc |-> IF IsError(out_k) \/ out_k = None THEN "done"
                         ELSE "scanned",
                  op |-> op, after |-> name, before |-> None, key |-> out_k,
                  pre |-> coll, at |-> coll]]
  /\ UNCHANGED <<kind, coll, last, n>>

FileScan(i) ==
  \/ Scanned(i, "first", None, ML_first(File_keys(coll)))
  \/ Scanned(i, "last", None, ML_last(File_keys(coll)))
  \/ \E name \in KeyedNames(coll) :
       \/ Scanned(i, "after", name,
                  ML_after(File_keys(coll), get_key_from_name(name)))
       \/ Scanned(i, "before", name,
                  ML_before(File_keys(coll), get_key_from_name(name)))

FileLookup(i) ==
  /\ calls[i].pc = "scanned"
  /\ calls' = [calls EXCEPT ![i].pc = "done", ![i].at = coll,
                            ![i].key = key_names_getitem(coll, @)]
  /\ UNCHANGED <<kind, coll, last, n>>

DirAdd ==
  /\ n < MaxDirOps
  /\ n' = n + 1
  /\ \E nm \in Foreign("file") \ coll : coll' = coll \cup {nm}
  /\ UNCHANGED <<kind, last, calls>>

DirRemove ==
  /\ n < MaxDirOps
  /\ n' = n + 1
  /\ \E nm \in coll : coll' = coll \ {nm}
  /\ UNCHANGED <<kind, last, calls>>

DirInit == Init /\ kind = "file"

DirNext == FileScan(Reader) \/ FileLookup(Reader) \/ DirAdd \/ DirRemove

SpecDir == DirInit /\ [][DirNext]_vars

(* A SqliteIndexer over named rows, with either name_to_key. *)
NamedInit ==
  /\ kind \in NamedKinds
  /\ \E ks \in InitKeys : coll = {add_record(key) : key \in Range(ks)}
  /\ last = [op |-> "new", after |-> None, before |-> None, ret |-> None,
             pre |-> coll, persisted |-> FALSE]
  /\ n = 0
  /\ calls = [i \in Callers |-> Idle]

SpecNamed == NamedInit /\ [][Next]_vars

(* A ManagedListIndexer constructed from keys given in any order; last.pre  *)
(* of the first state is the list as given.                                 *)
Perms(l) ==
  {p \in [1..Len(l) -> Range(l)] : \A x \in Range(l) : \E i \in 1..Len(l) : p[i] = x}

ListInit ==
  /\ kind = "list"
  /\ \E ks \in InitKeys : \E keys \in Perms(ks) :
       /\ coll = SortedList_new(keys)
       /\ last = [op |-> "new", after |-> None, before |-> None, ret |-> None,
                  pre |-> keys, persisted |-> FALSE]
  /\ n = 0
  /\ calls = [i \in Callers |-> Idle]

ListNext == Insert \/ InsertAtStart \/ InsertAtEnd \/ Iterate

SpecList == ListInit /\ [][ListNext]_vars

(* Iteration step by step, the generator of Indexer.__iter__: last.after is *)
(* its current, last.ret the names yielded so far.  Between two iterations  *)
(* an item is added at the start.  An iteration is cut off after MaxYield   *)
(* names.                                                                    *)
IterStart ==
  /\ last.op \in {"new", "iterated", "insert_at_start"}
  /\ n < MaxIterOps
  /\ n' = n + 1
  /\ last' = Call("iterating", Acc_first(kind, coll), None, <<>>, FALSE)
  /\ UNCHANGED <<kind, coll, calls>>

IterYield ==
  /\ last.op = "iterating"
  /\ last.after # None /\ ~IsError(last.after)
  /\ Len(last.ret) < MaxYield
  /\ last' = [last EXCEPT !.ret = Append(@, last.after),
                          !.after = Acc_after(kind, coll, last.after)]
  /\ UNCHANGED <<kind, coll, n, calls>>

IterStop ==
  /\ last.op = "iterating"
  /\ last.after = None
  /\ last' = [last EXCEPT !.op = "iterated"]
  /\ UNCHANGED <<kind, coll, n, calls>>

IterMutate ==
  /\ last.op \in {"new", "iterated"}
  /\ n < MaxIterOps
  /\ n' = n + 1
  /\ LET r == insert_at_start(kind, coll)
     IN /\ ~IsError(r.ret)
        /\ last' = Call("insert_at_start", None, None, r.ret, TRUE)
        /\ coll' = IF kind = "list" THEN r.coll
                   ELSE coll \cup {add_func(kind, r.ret)}
  /\ UNCHANGED <<kind, calls>>

IterNext == IterStart \/ IterYield \/ IterStop \/ IterMutate

SpecIter == Init /\ [][IterNext]_vars

(* Two callers whose calls interleave.  A call is made in the steps between *)
(* which the interpreter can switch threads, or another process can run:    *)
(* the call itself, with the read insert_at_start / insert_at_end make      *)
(* before they call insert; Indexer.insert, one accessor read and the       *)
(* generation of the key; the add of the key, self.lst.add of               *)
(* ManagedListIndexer.insert or the caller's add_func.  A caller passes at  *)
(* most one bound.                                                           *)
OneBound(kd, c) ==
  {<<None, None>>}
    \cup {<<x, None>> : x \in Names(kd, c) \cup Foreign(kd)}
    \cup {<<None, x>> : x \in Names(kd, c) \cup Foreign(kd)}

Begun(i, op, after, before, key) ==
  /\ calls[i].pc = "idle"
  /\ calls' = [calls EXCEPT ![i] =
                 [pc |-> IF IsError(key) THEN "done" ELSE "called", op |-> op,
                  after |-> after, before |-> before, key |-> key,
                  pre |-> coll, at |-> coll]]
  /\ UNCHANGED <<kind, coll, last, n>>

RaceBegin(i) ==
  \/ \E ab \in OneBound(kind, coll) : Begun(i, "insert", ab[1], ab[2], None)
  \/ LET f == Acc_first(kind, coll)
     IN Begun(i, "insert_at_start", None, IF IsError(f) THEN None ELSE f,
              IF IsError(f) THEN f ELSE None)
  \/ LET l == Acc_last(kind, coll)
     IN Begun(i, "insert_at_end", IF IsError(l) THEN None ELSE l, None,
              IF IsError(l) THEN l ELSE None)

RaceGenerate(i) ==
  /\ calls[i].pc = "called"
  /\ LET new_idx == Indexer_insert(kind, coll, calls[i].after, calls[i].before)
     IN calls' = [calls EXCEPT
                    ![i].pc = IF IsError(new_idx) THEN "done" ELSE "generated",
                    ![i].key = new_idx,
                    ![i].pre = IF calls[i].op = "insert" THEN coll ELSE @]
  /\ UNCHANGED <<kind, coll, last, n>>

RaceAdd(i) ==
  /\ calls[i].pc = "generated"
  /\ coll' = IF kind = "list" THEN SortedAdd(coll, calls[i].key)
             ELSE coll \cup {add_func(kind, calls[i].key)}
  /\ calls' = [calls EXCEPT ![i].pc = "done", ![i].at = coll]
  /\ UNCHANGED <<kind, last, n>>

RaceNext == \E i \in Callers : RaceBegin(i) \/ RaceGenerate(i) \/ RaceAdd(i)

SpecRace == Init /\ [][RaceNext]_vars

---------------------------------------------------------------------------
(* Properties. *)

Given(name) == name # None
KeyOf(name) == name_to_key(kind, name)
PreKeys == KeysOf(kind, last.pre)
NowKeys == KeysOf(kind, coll)

(* C1: a key returned by insert(after, before) is strictly above the key of *)
(* the resolved lower bound and strictly below the key of the resolved      *)
(* upper bound, wherever that bound is present; with both names given and   *)
(* key(after) < key(before) it lies strictly between the two, adjacent      *)
(* items, members of the collection, or not.                                *)
C1_KeyBetweenBounds ==
  (last.op = "insert" /\ ~IsError(last.ret)) =>
    LET lo == KeyOf(ResolveAfter(kind, last.pre, last.after, last.before))
        hi == KeyOf(ResolveBefore(kind, last.pre, last.after, last.before))
        ka == KeyOf(last.after)
        kb == KeyOf(last.before)
    IN /\ lo # None => StrLt(lo, last.ret)
       /\ hi # None => StrLt(last.ret, hi)
       /\ (ka # None /\ kb # None /\ StrLt(ka, kb))
            => (StrLt(ka, last.ret) /\ StrLt(last.ret, kb))

(* Both names given, the first not in the collection, with an item of the   *)
(* collection strictly between the two.                                     *)
C1_Witness ==
  /\ last.op = "insert" /\ ~IsError(last.ret)
  /\ Given(last.after) /\ Given(last.before)
  /\ last.after \notin Names(kind, last.pre)
  /\ \E k \in PreKeys : StrLt(KeyOf(last.after), k) /\ StrLt(k, KeyOf(last.before))

(* C2: with exactly one bound given, naming an item x of the collection,    *)
(* insert(after=x) returns a key above key(x) and below the key of x's      *)
(* immediate successor when there is one, insert(before=x) returns a key    *)
(* below key(x) and above the key of x's immediate predecessor when there   *)
(* is one; once the key is in the collection no key lies between it and     *)
(* key(x).                                                                  *)
SuccKey(S, k) == StrMin({o \in S : StrLt(k, o)})
PredKey(S, k) == StrMax({o \in S : StrLt(o, k)})
IsItem(name) == name \in Names(kind, last.pre) /\ KeyOf(name) # None

C2_OneBoundNeighbour ==
  /\ (last.op = "insert" /\ IsItem(last.after) /\ ~Given(last.before)) =>
       LET kx == KeyOf(last.after)
           ks == SuccKey(PreKeys, kx)
       IN /\ ~IsError(last.ret)
          /\ StrLt(kx, last.ret)
          /\ ks # None => StrLt(last.ret, ks)
          /\ last.persisted =>
               /\ last.ret \in NowKeys
               /\ ~\E k \in NowKeys : StrLt(kx, k) /\ StrLt(k, last.ret)
  /\ (last.op = "insert" /\ IsItem(last.before) /\ ~Given(last.after)) =>
       LET kx == KeyOf(last.before)
           kp == PredKey(PreKeys, kx)
       IN /\ ~IsError(last.ret)
          /\ StrLt(last.ret, kx)
          /\ kp # None => StrLt(kp, last.ret)
          /\ last.persisted =>
               /\ last.ret \in NowKeys
               /\ ~\E k \in NowKeys : StrLt(last.ret, k) /\ StrLt(k, kx)

(* C3: iterating the Indexer yields the names of the items of the           *)
(* collection, each exactly once, in ascending key order, as many names as  *)
(* the collection has items.                                                *)
ItemCount ==
  IF kind = "list" THEN Len(coll)
  ELSE Cardinality({nm \in coll : KeyOf(nm) # None})

C3_IterYieldsEveryItemOnce ==
  last.op = "iter" =>
    /\ \A i \in 1..Len(last.ret) : ~IsError(last.ret[i])
    /\ Len(last.ret) = ItemCount
    /\ Range(last.ret) = {nm \in Names(kind, coll) : KeyOf(nm) # None}
    /\ \A i \in 1..(Len(last.ret) - 1) :
         StrLt(KeyOf(last.ret[i]), KeyOf(last.ret[i + 1]))

(* C4: insert() with neither bound on a non-empty collection returns a key  *)
(* strictly greater than every key in the collection.                       *)
C4_NoBoundsInsertsAtEnd ==
  (last.op = "insert" /\ ~Given(last.after) /\ ~Given(last.before)
     /\ PreKeys # {}) =>
    /\ ~IsError(last.ret)
    /\ \A k \in PreKeys : StrLt(k, last.ret)

(* C5: on an empty collection insert() with no arguments, insert_at_start() *)
(* and insert_at_end() succeed and return the one starting key "a0".        *)
C5_EmptyGivesStartingKey ==
  (last.op \in InsertOps /\ ~Given(last.after) /\ ~Given(last.before)
     /\ PreKeys = {}) =>
    /\ ~IsError(last.ret)
    /\ last.ret = Key_a0
    /\ last.ret[1] = LowerA

C5_Witness ==
  /\ last.op = "insert" /\ ~Given(last.after) /\ ~Given(last.before)
  /\ PreKeys = {}
  /\ last.ret = Key_a0

(* C6: every insert_at_end() call of a run of them succeeds and returns a   *)
(* key above every key of the collection, and above the key of the call     *)
(* before it when that key was added to the collection.                     *)
C6_InsertAtEndIncreases ==
  [][ (last'.op = "insert_at_end" /\ n' = n + 1) =>
        /\ ~IsError(last'.ret)
        /\ \A k \in NowKeys : StrLt(k, last'.ret)
        /\ (last.op = "insert_at_end" /\ last.persisted)
             => StrLt(last.ret, last'.ret) ]_vars

(* C7: every insert_at_start() call of a run of them succeeds and returns a *)
(* key below every key of the collection, and below the key of the call     *)
(* before it when that key was added to the collection.                     *)
C7_InsertAtStartDecreases ==
  [][ (last'.op = "insert_at_start" /\ n' = n + 1) =>
        /\ ~IsError(last'.ret)
        /\ \A k \in NowKeys : StrLt(last'.ret, k)
        /\ (last.op = "insert_at_start" /\ last.persisted)
             => StrLt(last'.ret, last.ret) ]_vars

(* C8: insert with both bounds given and key(after) >= key(before) raises,  *)
(* returns no key, and leaves the collection as it was.                     *)
C8_WrongOrderRaises ==
  (last.op = "insert" /\ Given(last.after) /\ Given(last.before)
     /\ KeyOf(last.after) # None /\ KeyOf(last.before) # None
     /\ ~StrLt(KeyOf(last.after), KeyOf(last.before))) =>
    /\ last.ret = FIError
    /\ ~last.persisted
    /\ coll = last.pre

C8_Witness ==
  /\ kind = "list" /\ last.op = "insert"
  /\ Given(last.after) /\ Given(last.before)
  /\ StrLt(last.before, last.after)
  /\ last.ret = FIError

(* C9: no Indexer operation removes or rewrites a key: every call leaves    *)
(* the collection as it was, but for a ManagedListIndexer insert that       *)
(* returns a key, which adds that one key and nothing else.                 *)
AddedOne(l, l2, key) ==
  /\ Len(l2) = Len(l) + 1
  /\ \E i \in 1..Len(l2) : l2[i] = key /\ Take(l2, i - 1) \o Drop(l2, i) = l

C9_OnlyAddsItsKey ==
  [][ (n' = n + 1) =>
        IF kind = "list" /\ last'.op \in InsertOps /\ ~IsError(last'.ret)
          THEN AddedOne(coll, coll', last'.ret)
          ELSE coll' = coll ]_vars

C9_Witness ==
  /\ kind = "list" /\ last.op \in InsertOps /\ ~IsError(last.ret)
  /\ Len(last.pre) >= 3 /\ Len(coll) = Len(last.pre) + 1
  /\ coll[2] = last.ret

(* C10: first(), last(), before(name) and after(name) of every accessor     *)
(* return a name or None and never raise, for any name.                     *)
C10_ReadsAreTotal ==
  last.op \in ReadOps => ~IsError(last.ret)

(* C11: before(name) returns the item immediately preceding name in key     *)
(* order and None when name is the first item or is not an item of the      *)
(* collection; after(name) returns the item immediately following it and    *)
(* None when name is the last item or is not an item.                       *)
NameOfKey(k) ==
  IF k = None THEN None
  ELSE CHOOSE nm \in Names(kind, last.pre) : KeyOf(nm) = k

C11_NeighbourOrAbsent ==
  /\ last.op = "before" =>
       IF IsItem(last.after)
         THEN last.ret = NameOfKey(PredKey(PreKeys, KeyOf(last.after)))
         ELSE last.ret = None
  /\ last.op = "after" =>
       IF IsItem(last.after)
         THEN last.ret = NameOfKey(SuccKey(PreKeys, KeyOf(last.after)))
         ELSE last.ret = None

(* C12: insert called with an after or before name that is not an item of   *)
(* the collection returns the key the same call returns with that bound     *)
(* omitted.                                                                 *)
Resolvable(name) == IF Given(name) /\ ~IsItem(name) THEN None ELSE name

C12_UnresolvedBoundIsOmitted ==
  (last.op = "insert"
     /\ (Resolvable(last.after) # last.after
           \/ Resolvable(last.before) # last.before)) =>
    last.ret = Indexer_insert(kind, last.pre, Resolvable(last.after),
                              Resolvable(last.before))

(* C13: when two callers insert concurrently on one ManagedListIndexer the  *)
(* two calls never return the same key, and each returned key lies strictly *)
(* between its neighbours in the resulting collection.                      *)
Returned(i) == calls[i].pc = "done" /\ ~IsError(calls[i].key)

StrictlyBetweenNeighbours(l, key) ==
  \A j \in 1..Len(l) :
    l[j] = key =>
      /\ j > 1 => StrLt(l[j - 1], key)
      /\ j < Len(l) => StrLt(key, l[j + 1])

C13_ConcurrentInsertsAreSerialized ==
  (kind = "list" /\ \A i \in Callers : Returned(i)) =>
    /\ \A i, j \in Callers : i # j => calls[i].key # calls[j].key
    /\ \A i \in Callers : StrictlyBetweenNeighbours(coll, calls[i].key)

(* C14: two writers on a relational table or a directory each run insert    *)
(* and then add the key themselves.  A writer adds a key that is not        *)
(* strictly between its neighbours as they are when it adds it only when    *)
(* the collection changed between its read and its add; and there is such   *)
(* an interleaving, the two writers generating the identical key included   *)
(* (C14_Witness): nothing makes the read and the add atomic.                *)
LowerAt(i) ==
  IF Given(calls[i].after) THEN KeyOf(calls[i].after)
  ELSE IF Given(calls[i].before)
    THEN PredKey(KeysOf(kind, calls[i].at), KeyOf(calls[i].before))
  ELSE StrMax(KeysOf(kind, calls[i].at))
UpperAt(i) ==
  IF Given(calls[i].before) THEN KeyOf(calls[i].before)
  ELSE IF Given(calls[i].after)
    THEN SuccKey(KeysOf(kind, calls[i].at), KeyOf(calls[i].after))
  ELSE None

BetweenAtAdd(i) ==
  /\ LowerAt(i) # None => StrLt(LowerAt(i), calls[i].key)
  /\ UpperAt(i) # None => StrLt(calls[i].key, UpperAt(i))

C14_RaceOnlyWhenInterleaved ==
  \A i \in Callers :
    (kind # "list" /\ Returned(i) /\ ~BetweenAtAdd(i)) =>
      calls[i].at # calls[i].pre

C14_Witness ==
  /\ kind # "list"
  /\ \A i \in Callers : Returned(i)
  /\ calls[1].key = calls[2].key
  /\ \E i \in Callers :
       /\ ~BetweenAtAdd(i)
       /\ calls[i].key \in KeysOf(kind, calls[i].at)

(* C15: the collection of a ManagedListIndexer is in ascending key order in *)
(* every reachable state: after construction from keys given in any order,  *)
(* when it holds exactly the keys given, and after every insert, inserts    *)
(* with both bounds given that are not adjacent items included; iterating a *)
(* freshly constructed ManagedListIndexer yields the keys sorted.           *)
IsSorted(l) == \A i \in 1..(Len(l) - 1) : StrLe(l[i], l[i + 1])

C15_ListStaysSorted ==
  kind = "list" =>
    /\ IsSorted(coll)
    /\ last.op = "new" =>
         /\ Len(coll) = Len(last.pre)
         /\ coll = SortedListOf(Range(last.pre))
    /\ (last.op = "iter" /\ n = 1) => last.ret = coll

C15_Witness ==
  /\ kind = "list" /\ last.op = "insert" /\ ~IsError(last.ret)
  /\ Given(last.after) /\ Given(last.before)
  /\ \E k \in PreKeys : StrLt(last.after, k) /\ StrLt(k, last.before)
  /\ Len(coll) = Len(last.pre) + 1
  /\ IsSorted(coll)

(* C16: an iteration over a collection that is not changed meanwhile        *)
(* terminates: it starts at first(), follows after() through strictly       *)
(* ascending keys, the names yielded and the one about to be yielded are    *)
(* never more than the collection has items, it stops at the first None,    *)
(* and a new iteration starts at first() again.                             *)
Pending == IF last.op = "iterating" /\ last.after # None THEN 1 ELSE 0

C16_IterationTerminates ==
  last.op \in {"iterating", "iterated"} =>
    /\ Len(last.ret) + Pending <= ItemCount
    /\ ~IsError(last.after)
    /\ last.op = "iterated" => last.after = None
    /\ Len(last.ret) > 0 => last.ret[1] = Acc_first(kind, coll)
    /\ last.ret = <<>> => last.after = Acc_first(kind, coll)
    /\ \A i \in 1..(Len(last.ret) - 1) :
         StrLt(KeyOf(last.ret[i]), KeyOf(last.ret[i + 1]))

C16_Witness ==
  /\ last.op = "iterated" /\ n = MaxIterOps
  /\ Len(last.ret) = 4 /\ ItemCount = 4
  /\ last.ret[1] = Acc_first(kind, coll)

(* C17: a key returned by a ManagedListIndexer insert called with at most   *)
(* one bound (insert(), insert(after=x), insert(before=x),                  *)
(* insert_at_start(), insert_at_end()) is not a key the collection already  *)
(* has, so such a call on a duplicate-free collection leaves it             *)
(* duplicate-free.                                                          *)
NoDuplicates(l) == \A i, j \in 1..Len(l) : i # j => l[i] # l[j]

C17_OneBoundKeyIsFresh ==
  [][ (kind = "list" /\ n' = n + 1 /\ last'.op \in InsertOps
         /\ ~IsError(last'.ret)
         /\ ~(Given(last'.after) /\ Given(last'.before))) =>
        /\ last'.ret \notin Range(coll)
        /\ NoDuplicates(coll) => NoDuplicates(coll') ]_vars

C17_Witness ==
  /\ kind = "list" /\ n = MaxOps
  /\ last.op = "insert" /\ ~IsError(last.ret)
  /\ Given(last.before) /\ ~Given(last.after)
  /\ last.before \in Range(last.pre)
  /\ \E k \in Range(last.pre) : StrLt(k, last.ret)
  /\ last.ret \in Range(coll) /\ last.ret \notin Range(last.pre)
  /\ NoDuplicates(coll)

(* C18: a bound of Indexer.insert that is None after resolution reaches the *)
(* key generator as None, whatever name_to_key the caller supplied: the     *)
(* call returns what generate_key_between returns for the keys of the       *)
(* bounds that are names and None for the bounds that are None, name_to_key *)
(* turning None neither into a key nor into an error.                       *)
KeyOrAbsent(name) == IF name = None THEN None ELSE KeyOf(name)

C18_AbsentBoundStaysAbsent ==
  last.op = "insert" =>
    LET a == ResolveAfter(kind, last.pre, last.after, last.before)
        b == ResolveBefore(kind, last.pre, last.after, last.before)
    IN (~IsError(a) /\ ~IsError(b)
          /\ ~IsError(KeyOrAbsent(a)) /\ ~IsError(KeyOrAbsent(b))) =>
         /\ a = None => KeyOf(a) = None
         /\ b = None => KeyOf(b) = None
         /\ last.ret = generate_key_between(KeyOrAbsent(a), KeyOrAbsent(b))

(* C19: a FileAccessor read during which directory entries are added or     *)
(* removed never fails, and returns None or the name of an entry that was   *)
(* eligible in the directory during the call.                               *)
Eligible(d) == {nm \in d : get_key_from_name(nm) # None}

C19_ReadSeesOneDirectory ==
  \A i \in {Reader} :
    (kind = "file" /\ calls[i].pc = "done" /\ calls[i].op \in ReadOps) =>
      /\ ~IsError(calls[i].key)
      /\ calls[i].key = None
           \/ calls[i].key \in Eligible(calls[i].pre) \cup Eligible(calls[i].at)
=============================================================================
